---------------------------- MODULE Spec2Model ----------------------------
(***************************************************************************)
(* A model of the GMRepo client (src/src/gmrepo_api/gmrepo.py): the string *)
(* normalizer _clean_str with its lru_cache, the response sanitizer        *)
(* _clean_dict, the request executor _request, the paginated fetch         *)
(* get_all_associated_runs and the taxon overview get_all_gut_microbes.    *)
(*                                                                         *)
(* Three specifications share the variables:                               *)
(*   Spec          one call of get_all_associated_runs against a service   *)
(*                 that holds a number of runs and may fail any request;   *)
(*   SpecSanitize  one call of get_run_details or get_all_gut_microbes     *)
(*                 against a service that answers with a JSON document;    *)
(*   SpecCache     calls of _clean_str through several client instances.   *)
(***************************************************************************)
EXTENDS Naturals, Sequences, FiniteSets

VARIABLES
    pc,             \* position of the caller inside the operation method
    op,             \* the operation method called
    self,           \* the client instance the method is called on
    clients,        \* the client instances constructed so far
    cache,          \* the lru_cache of _clean_str: entries keyed by (self, s)
    nr_runs,        \* the service: number of runs it holds for the phenotype
    batch_size,     \* argument of get_all_associated_runs
    total_runs,     \* local of get_all_associated_runs
    skip,           \* loop variable of get_all_associated_runs
    all_runs,       \* local of get_all_associated_runs: the pages, in call order
    requests,       \* every request posted so far, in order
    outstanding,    \* requests posted and not yet answered
    response_data,  \* the parsed body of the last response (response.json())
    response,       \* what _request returned to the operation method
    result,         \* what the operation method returned
    error,          \* the exception the operation method raised
    last            \* the last call of _clean_str (SpecCache)

vars == <<pc, op, self, clients, cache, nr_runs, batch_size, total_runs, skip,
          all_runs, requests, outstanding, response_data, response, result,
          error, last>>

----------------------------------------------------------------------------
(* Bounds of the model.                                                    *)

MaxRuns == 6        \* the service holds 0 .. MaxRuns runs
MaxBatch == 3       \* batch_size ranges over 1 .. MaxBatch
MaxLen == 3         \* length of a string sent as a whole document
MaxItems == 3       \* length of a JSON array of leaves
MaxEntries == 3     \* cache entries made in one behaviour of SpecCache

(* Characters.  Python's str.strip() removes every whitespace character;   *)
(* tab stands for the whitespace that is neither CR, LF nor a blank.       *)
CR == "\r"
LF == "\n"
SP == " "
TAB == "\t"
Alphabet == {"a", SP, TAB, CR, LF}
Whitespace == {SP, TAB, CR, LF}

Clients == {"g1", "g2"}

----------------------------------------------------------------------------
(* JSON values as response.json() builds them.  Every value is a record of *)
(* the same fields: t is the Python type, s the characters of a str, n the *)
(* value of a number or bool, keys the keys of a dict in insertion order   *)
(* and items the values of a dict or the elements of a list.               *)

Str(s) == [t |-> "str", s |-> s, n |-> 0, keys |-> <<>>, items |-> <<>>]
Num(n) == [t |-> "int", s |-> <<>>, n |-> n, keys |-> <<>>, items |-> <<>>]
Bool(n) == [t |-> "bool", s |-> <<>>, n |-> n, keys |-> <<>>, items |-> <<>>]
Null == [t |-> "NoneType", s |-> <<>>, n |-> 0, keys |-> <<>>, items |-> <<>>]
List(items) == [t |-> "list", s |-> <<>>, n |-> 0, keys |-> <<>>, items |-> items]
Dict(keys, items) == [t |-> "dict", s |-> <<>>, n |-> 0, keys |-> keys, items |-> items]

SeqsUpTo(S, n) == UNION {[1..k -> S] : k \in 0..n}

----------------------------------------------------------------------------
(* String Normalizer: GMRepo._clean_str.                                   *)

\* str.replace(c, "")
Replace(s, c) == SelectSeq(s, LAMBDA x : x # c)

RECURSIVE LStrip(_, _)
LStrip(s, chars) ==
    IF s # <<>> /\ Head(s) \in chars THEN LStrip(Tail(s), chars) ELSE s

RECURSIVE RStrip(_, _)
RStrip(s, chars) ==
    IF s # <<>> /\ s[Len(s)] \in chars THEN RStrip(SubSeq(s, 1, Len(s) - 1), chars) ELSE s

\* str.strip(): leading and trailing whitespace removed
Strip(s) == RStrip(LStrip(s, Whitespace), Whitespace)

\* A normalizer that strips blanks first and removes the line breaks after.
clean_str_strip_first(s) == Replace(Replace(RStrip(LStrip(s, {SP}), {SP}), CR), LF)

\* A normalizer that forgets the final strip().
clean_str_no_strip(s) == Replace(Replace(s, CR), LF)

\* The body of _clean_str: s.replace("\r", "").replace("\n", "").strip()
clean_str(s) == Strip(Replace(Replace(s, CR), LF))

\* The lru_cache lookup keyed by the string alone, whichever instance asks.
CacheLookupAnyInstance(c, me, s) == {e \in c : e.arg = s}

\* The lru_cache key of a call _clean_str(self, s) is (self, s).
CacheLookup(c, me, s) == {e \in c : e.owner = me /\ e.arg = s}

\* One call of the memoized _clean_str: a hit returns the stored value, a
\* miss computes it and adds an entry (maxsize=None: nothing is evicted).
\* `used` is the owner of the entry that answered a hit.
CachedCleanStr(me, s, c) ==
    LET hits == CacheLookup(c, me, s) IN
    IF hits # {}
    THEN LET e == CHOOSE e \in hits : TRUE IN
         [val |-> e.val, cache |-> c, hit |-> TRUE, used |-> e.owner]
    ELSE LET v == clean_str(s) IN
         [val |-> v, cache |-> c \cup {[owner |-> me, arg |-> s, val |-> v]},
          hit |-> FALSE, used |-> me]

----------------------------------------------------------------------------
(* Response Sanitizer: GMRepo._clean_dict.  The cache is threaded through  *)
(* the walk, in the order of Python's comprehensions.                      *)

RECURSIVE CleanDict(_, _, _)
RECURSIVE CleanItems(_, _, _)

CleanItems(me, items, c) ==
    IF items = <<>>
    THEN [val |-> <<>>, cache |-> c]
    ELSE LET h == CleanDict(me, Head(items), c)
             r == CleanItems(me, Tail(items), h.cache)
         IN [val |-> <<h.val>> \o r.val, cache |-> r.cache]

\* A sanitizer that drops the null elements of what it walks.
CleanDictDropNull(me, obj, c) ==
    IF obj.t \in {"dict", "list"}
    THEN LET r == CleanItems(me, SelectSeq(obj.items, LAMBDA v : v.t # "NoneType"), c)
         IN [val |-> [obj EXCEPT !.items = r.val], cache |-> r.cache]
    ELSE IF obj.t = "str"
    THEN LET r == CachedCleanStr(me, obj.s, c)
         IN [val |-> Str(r.val), cache |-> r.cache]
    ELSE [val |-> obj, cache |-> c]

CleanDict(me, obj, c) ==
    IF obj.t = "dict"
    THEN LET r == CleanItems(me, obj.items, c)
         IN [val |-> Dict(obj.keys, r.val), cache |-> r.cache]
    ELSE IF obj.t = "list"
    THEN LET r == CleanItems(me, obj.items, c)
         IN [val |-> List(r.val), cache |-> r.cache]
    ELSE IF obj.t = "str"
    THEN LET r == CachedCleanStr(me, obj.s, c)
         IN [val |-> Str(r.val), cache |-> r.cache]
    ELSE [val |-> obj, cache |-> c]


----------------------------------------------------------------------------
(* What an operation method hands back.  kind says which of the fields is  *)
(* meant: "none" (nothing was returned), "table" (a DataFrame: rows), "doc"*)
(* (a sanitized document) or "parts" (the dict of get_all_gut_microbes).   *)

NoValue == [kind |-> "none", rows |-> <<>>, doc |-> Null, parts |-> <<>>]
Table(rows) == [kind |-> "table", rows |-> rows, doc |-> Null, parts |-> <<>>]
Doc(d) == [kind |-> "doc", rows |-> <<>>, doc |-> d, parts |-> <<>>]

NoError == "none"
Failures == {"HTTPError", "ConnectionError"}

\* pd.DataFrame(response) of a list of records: one row per record.
DataFrame(obj) == obj.items

\* pd.DataFrame(response).iloc[0, 0]: first row, first column.
iloc00(obj) == DataFrame(obj)[1].items[1].n

RECURSIVE concat(_)
\* pd.concat(all_runs): the rows of the pages, in list order.
concat(pages) == IF pages = <<>> THEN <<>> ELSE Head(pages) \o concat(Tail(pages))

----------------------------------------------------------------------------
(* The remote service, as far as the paginated fetch sees it: it holds     *)
(* nr_runs runs, numbered from 0, reports that count, and answers a page   *)
(* request (skip, limit) with the runs at skip .. min(skip + limit, n) - 1.*)

COUNT_RUNS == "countAssociatedRunsByPhenotypeMeshID"
ASSOCIATED_RUNS == "getAssociatedRunsByPhenotypeMeshIDLimit"
ALL_GUT_MICROBES == "get_all_gut_microbes"
RUN_DETAILS == "getRunDetailsByRunID"

Min(a, b) == IF a < b THEN a ELSE b

Run(i) == Dict(<<"run_id">>, <<Num(i)>>)

ServiceCount(n) == List(<<Dict(<<"count">>, <<Num(n)>>)>>)

ServicePage(n, sk, limit) ==
    LET hi == Min(sk + limit, n) IN
    List([k \in 1..(IF hi > sk THEN hi - sk ELSE 0) |-> Run(sk + k - 1)])

----------------------------------------------------------------------------
(* Request Executor: GMRepo._request, after raise_for_status() passed:     *)
(* response.json() is sanitized and returned.                              *)

_request(me, body, c) == CleanDict(me, body, c)

\* session.post(url, json=data or {})
Post(endpoint, data) == [endpoint |-> endpoint, data |-> data]

----------------------------------------------------------------------------
(* get_all_associated_runs, count_associated_runs, get_associated_runs.    *)

\* A loop that also runs its body when skip has reached total_runs.
RangeHasInclusive(sk, total) == sk <= total

\* range(0, total_runs, batch_size) yields skip
RangeHas(sk, total) == sk < total

\* batch = skip + batch_size, passed as `limit` to get_associated_runs
PageLimit(sk, bs) == sk + bs

\* data = {"mesh_id": mesh_id, "skip": skip, "limit": limit}
PageRequest(sk, bs) == Post(ASSOCIATED_RUNS, <<sk, PageLimit(sk, bs)>>)

\* A handler that hands back the pages fetched before the failure.
ResultOnRaisePartial(pages) == Table(concat(pages))

\* An exception leaves get_all_associated_runs without a return value.
ResultOnRaise(pages) == NoValue

\* The loop head: either the next page is requested or the method returns.
LoopStep(sk, total, pages) ==
    IF RangeHas(sk, total)
    THEN /\ skip' = sk
         /\ requests' = Append(requests, PageRequest(sk, batch_size))
         /\ outstanding' = {Len(requests) + 1}
         /\ pc' = "page_wait"
         /\ result' = result
    ELSE /\ skip' = skip
         /\ requests' = requests
         /\ outstanding' = {}
         /\ pc' = "returned"
         /\ result' = Table(concat(pages))

\* The call: total_runs = self.count_associated_runs(mesh_id) posts the
\* count request and blocks.
GetAllAssociatedRuns(c, bs) ==
    /\ pc = "idle"
    /\ c \in clients
    /\ op' = "get_all_associated_runs"
    /\ self' = c
    /\ batch_size' = bs
    /\ requests' = Append(requests, Post(COUNT_RUNS, <<>>))
    /\ outstanding' = {Len(requests) + 1}
    /\ pc' = "count_wait"
    /\ UNCHANGED <<clients, cache, nr_runs, total_runs, skip, all_runs,
                   response_data, response, result, error, last>>

\* A loop that posts every page request at once after the count.
CountResponseEager ==
    /\ pc = "count_wait"
    /\ op = "get_all_associated_runs"
    /\ LET r == _request(self, ServiceCount(nr_runs), cache)
           n == (iloc00(r.val) + batch_size - 1) \div batch_size
       IN /\ response_data' = ServiceCount(nr_runs)
          /\ response' = r.val
          /\ cache' = r.cache
          /\ total_runs' = iloc00(r.val)
          /\ all_runs' = <<>>
          /\ requests' = requests \o
                [k \in 1..n |-> PageRequest((k - 1) * batch_size, batch_size)]
          /\ outstanding' = {Len(requests) + k : k \in 1..n}
          /\ skip' = 0
          /\ pc' = IF n > 0 THEN "page_wait" ELSE "returned"
          /\ result' = IF n > 0 THEN result ELSE Table(<<>>)
    /\ UNCHANGED <<op, self, clients, nr_runs, batch_size, error, last>>

\* The count response arrived with a 2xx status: count_associated_runs
\* returns, all_runs = [] and the loop is entered.
CountResponse ==
    /\ pc = "count_wait"
    /\ op = "get_all_associated_runs"
    /\ LET r == _request(self, ServiceCount(nr_runs), cache)
       IN /\ response_data' = ServiceCount(nr_runs)
          /\ response' = r.val
          /\ cache' = r.cache
          /\ total_runs' = iloc00(r.val)
          /\ all_runs' = <<>>
          /\ LoopStep(0, iloc00(r.val), <<>>)
    /\ UNCHANGED <<op, self, clients, nr_runs, batch_size, error, last>>

\* A page response arrived with a 2xx status: the page is appended and the
\* loop goes on with skip + batch_size.
PageResponse ==
    /\ pc = "page_wait"
    /\ op = "get_all_associated_runs"
    /\ LET req == requests[Len(requests)]
           body == ServicePage(nr_runs, req.data[1], req.data[2])
           r == _request(self, body, cache)
           pages == Append(all_runs, DataFrame(r.val))
       IN /\ response_data' = body
          /\ response' = r.val
          /\ cache' = r.cache
          /\ all_runs' = pages
          /\ LoopStep(skip + batch_size, total_runs, pages)
    /\ UNCHANGED <<op, self, clients, nr_runs, batch_size, total_runs, error, last>>

\* session.post raised (transport failure) or raise_for_status() raised
\* (non-2xx): nothing catches it, the operation method is left.
RequestFails(kind) ==
    /\ pc \in {"count_wait", "page_wait", "wait"}
    /\ outstanding' = {}
    /\ error' = kind
    /\ result' = ResultOnRaise(all_runs)
    /\ pc' = "raised"
    /\ UNCHANGED <<op, self, clients, cache, nr_runs, batch_size, total_runs,
                   skip, all_runs, requests, response_data, response, last>>

----------------------------------------------------------------------------
(* get_run_details and get_all_gut_microbes, against a service that        *)
(* answers with a JSON document.                                           *)

FULL_TAXONOMIC_PROFILE == "getFullTaxonomicProfileByRunID"

Parts(p) == [kind |-> "parts", rows |-> <<>>, doc |-> Null, parts |-> p]

HasKey(obj, key) == \E i \in 1..Len(obj.keys) : obj.keys[i] = key

\* dict.get(key, default)
Get(obj, key, default) ==
    IF HasKey(obj, key)
    THEN obj.items[CHOOSE i \in 1..Len(obj.keys) : obj.keys[i] = key]
    ELSE default

\* A result whose genus table is read from the species key.
GutPartsCopyPaste(resp) ==
    [all_species |-> DataFrame(Get(resp, "all_species", List(<<>>))),
     all_genus |-> DataFrame(Get(resp, "all_species", List(<<>>))),
     metadata |-> Get(resp, "metadata", Dict(<<>>, <<>>))]

\* The result dict of get_all_gut_microbes.
GutParts(resp) ==
    [all_species |-> DataFrame(Get(resp, "all_species", List(<<>>))),
     all_genus |-> DataFrame(Get(resp, "all_genus", List(<<>>))),
     metadata |-> Get(resp, "metadata", Dict(<<>>, <<>>))]

(* The documents the service answers with.                                 *)
SampleStrings ==
    {<<>>, <<"a">>, <<"a", CR, LF>>, <<SP, "a", TAB>>, <<"a", LF, "a">>}
Leaves == {Str(s) : s \in SampleStrings} \cup {Num(3), Bool(1), Null}
TopStrings == {Str(s) : s \in SeqsUpTo(Alphabet, MaxLen)}
FlatLists == {List(q) : q \in SeqsUpTo(Leaves, MaxItems)}
\* _clean_dict copies the keys as they are: one key carries a CR and an LF.
Objects ==
    {Dict(<<"x">>, <<v>>) : v \in FlatLists \cup Leaves}
        \cup {Dict(<<"k\r\n", "x">>, <<u, v>>) : u, v \in Leaves}
Records == {List(<<d>>) : d \in Objects}
Docs == Leaves \cup TopStrings \cup FlatLists \cup Objects \cup Records

Absent == [t |-> "absent", s |-> <<>>, n |-> 0, keys |-> <<>>, items |-> <<>>]

\* The JSON object of the keys whose value is not Absent, in the given order.
ObjectOf(keys, items) ==
    LET RECURSIVE Idx(_)
        Idx(i) == IF i > Len(keys) THEN <<>>
                  ELSE (IF items[i] = Absent THEN <<>> ELSE <<i>>) \o Idx(i + 1)
        idx == Idx(1)
    IN Dict([k \in 1..Len(idx) |-> keys[idx[k]]], [k \in 1..Len(idx) |-> items[idx[k]]])

Taxon(s) == Dict(<<"name">>, <<Str(s)>>)
SampleTables ==
    {List(<<>>), List(<<Taxon(<<"a", CR>>)>>), List(<<Taxon(<<"a">>), Taxon(<<SP, "a">>)>>)}
SampleMetadata == {Dict(<<>>, <<>>), Dict(<<"version">>, <<Str(<<"a", LF>>)>>)}
GutDocs ==
    {ObjectOf(<<"status", "all_species", "all_genus", "metadata">>, <<st, sp, ge, md>>) :
        st \in {Absent, Str(<<"a">>)},
        sp \in SampleTables \cup {Absent},
        ge \in SampleTables \cup {Absent},
        md \in SampleMetadata \cup {Absent}}

\* get_run_details(run_id, full_profile): the request is posted.
GetRunDetails(c, full_profile) ==
    /\ pc = "idle"
    /\ c \in clients
    /\ op' = "get_run_details"
    /\ self' = c
    /\ requests' = Append(requests,
            Post(IF full_profile THEN FULL_TAXONOMIC_PROFILE ELSE RUN_DETAILS, <<>>))
    /\ outstanding' = {Len(requests) + 1}
    /\ pc' = "wait"
    /\ UNCHANGED <<clients, cache, nr_runs, batch_size, total_runs, skip, all_runs,
                   response_data, response, result, error, last>>

\* get_all_gut_microbes(): the request is posted.
GetAllGutMicrobes(c) ==
    /\ pc = "idle"
    /\ c \in clients
    /\ op' = "get_all_gut_microbes"
    /\ self' = c
    /\ requests' = Append(requests, Post(ALL_GUT_MICROBES, <<>>))
    /\ outstanding' = {Len(requests) + 1}
    /\ pc' = "wait"
    /\ UNCHANGED <<clients, cache, nr_runs, batch_size, total_runs, skip, all_runs,
                   response_data, response, result, error, last>>

\* The 2xx response of get_run_details: the sanitized document is returned.
RunDetailsResponse(doc) ==
    /\ pc = "wait"
    /\ op = "get_run_details"
    /\ LET r == _request(self, doc, cache)
       IN /\ response_data' = doc
          /\ response' = r.val
          /\ cache' = r.cache
          /\ result' = Doc(r.val)
    /\ outstanding' = {}
    /\ pc' = "returned"
    /\ UNCHANGED <<op, self, clients, nr_runs, batch_size, total_runs, skip,
                   all_runs, requests, error, last>>

\* The 2xx response of get_all_gut_microbes: the three parts are built.
GutMicrobesResponse(doc) ==
    /\ pc = "wait"
    /\ op = "get_all_gut_microbes"
    /\ LET r == _request(self, doc, cache)
       IN /\ response_data' = doc
          /\ response' = r.val
          /\ cache' = r.cache
          /\ result' = Parts(GutParts(r.val))
    /\ outstanding' = {}
    /\ pc' = "returned"
    /\ UNCHANGED <<op, self, clients, nr_runs, batch_size, total_runs, skip,
                   all_runs, requests, error, last>>

----------------------------------------------------------------------------
(* _clean_str called directly, through several client instances.           *)

\* GMRepo(): __init__ makes the session; the cache of _clean_str belongs to
\* the class and is left as it is.
NewClient(c) ==
    /\ c \notin clients
    /\ clients' = clients \cup {c}
    /\ UNCHANGED <<pc, op, self, cache, nr_runs, batch_size, total_runs, skip,
                   all_runs, requests, outstanding, response_data, response,
                   result, error, last>>

\* c._clean_str(s)
CallCleanStr(c, s) ==
    /\ c \in clients
    /\ Cardinality(cache) < MaxEntries \/ CacheLookup(cache, c, s) # {}
    /\ LET r == CachedCleanStr(c, s, cache)
       IN /\ cache' = r.cache
          /\ last' = [self |-> c, arg |-> s, ret |-> r.val, hit |-> r.hit, used |-> r.used]
    /\ UNCHANGED <<pc, op, self, clients, nr_runs, batch_size, total_runs, skip,
                   all_runs, requests, outstanding, response_data, response,
                   result, error>>

----------------------------------------------------------------------------
(* The specifications.                                                     *)

InitClient ==
    /\ pc = "idle"
    /\ op = "none"
    /\ self = "none"
    /\ cache = {}
    /\ batch_size = 0
    /\ total_runs = 0
    /\ skip = 0
    /\ all_runs = <<>>
    /\ requests = <<>>
    /\ outstanding = {}
    /\ response_data = Null
    /\ response = Null
    /\ result = NoValue
    /\ error = NoError
    /\ last = [self |-> "none", arg |-> <<>>, ret |-> <<>>, hit |-> FALSE, used |-> "none"]

Init == InitClient /\ clients = Clients /\ nr_runs \in 0..MaxRuns

Next ==
    \/ \E c \in Clients, bs \in 1..MaxBatch : GetAllAssociatedRuns(c, bs)
    \/ CountResponse
    \/ PageResponse
    \/ \E kind \in Failures : RequestFails(kind)

Spec == Init /\ [][Next]_vars

InitSanitize == InitClient /\ clients = Clients /\ nr_runs = 0

NextSanitize ==
    \/ \E c \in Clients, full_profile \in BOOLEAN : GetRunDetails(c, full_profile)
    \/ \E c \in Clients : GetAllGutMicrobes(c)
    \/ \E doc \in Docs : RunDetailsResponse(doc)
    \/ \E doc \in GutDocs : GutMicrobesResponse(doc)
    \/ \E kind \in Failures : RequestFails(kind)

SpecSanitize == InitSanitize /\ [][NextSanitize]_vars

InitCache == InitClient /\ clients = {} /\ nr_runs = 0

NextCache ==
    \/ \E c \in Clients : NewClient(c)
    \/ \E c \in Clients, s \in SampleStrings : CallCleanStr(c, s)

SpecCache == InitCache /\ [][NextCache]_vars

----------------------------------------------------------------------------
(* The claims.                                                             *)

PageRequests == SelectSeq(requests, LAMBDA r : r.endpoint = ASSOCIATED_RUNS)
CeilDiv(a, b) == (a + b - 1) \div b
CountRequest == [endpoint |-> COUNT_RUNS, data |-> <<>>]

\* A string with no CR, no LF and no whitespace at either end.
IsNormal(s) ==
    /\ \A i \in 1..Len(s) : s[i] \notin {CR, LF}
    /\ s # <<>> => (s[1] \notin Whitespace /\ s[Len(s)] \notin Whitespace)

\* s with CR and LF removed, cut to its first and last non-whitespace character.
Normalized(s) ==
    LET f == SelectSeq(s, LAMBDA x : x \notin {CR, LF})
        keep == {i \in 1..Len(f) : f[i] \notin Whitespace}
    IN IF keep = {} THEN <<>>
       ELSE SubSeq(f, CHOOSE i \in keep : \A j \in keep : i <= j,
                      CHOOSE i \in keep : \A j \in keep : j <= i)

RECURSIVE StringsClean(_)
\* Every string value of v (v itself, a dict value, a list element) is normal.
StringsClean(v) ==
    IF v.t = "str" THEN IsNormal(v.s)
    ELSE \A i \in 1..Len(v.items) : StringsClean(v.items[i])

RECURSIVE SameShapeNormalized(_, _)
\* out has the shape of in, its strings normalized, everything else as in in.
SameShapeNormalized(in, out) ==
    /\ out.t = in.t
    /\ out.keys = in.keys
    /\ out.n = in.n
    /\ out.s = (IF in.t = "str" THEN Normalized(in.s) ELSE in.s)
    /\ Len(out.items) = Len(in.items)
    /\ \A i \in 1..Len(in.items) : SameShapeNormalized(in.items[i], out.items[i])

\* C1 (as claimed): the k-th page request (k = 0, 1, ...) carries skip =
\* k * batch_size and limit = batch_size, and when the method returns it has
\* made exactly ceil(total_runs / batch_size) page requests.
C1_PageRequestsAsClaimed ==
    /\ \A k \in 1..Len(PageRequests) :
          PageRequests[k].data = <<(k - 1) * batch_size, batch_size>>
    /\ (pc = "returned" /\ op = "get_all_associated_runs") =>
          Len(PageRequests) = CeilDiv(total_runs, batch_size)

\* C2 (as claimed): against the service that holds nr_runs runs, the table
\* returned has exactly the runs 0 .. nr_runs - 1, each once, in offset order.
C2_EveryRunOnce ==
    (pc = "returned" /\ op = "get_all_associated_runs") =>
        /\ result.kind = "table"
        /\ result.rows = [i \in 1..nr_runs |-> Run(i - 1)]

\* C3: when count-runs returned 0, the count request is the only request
\* made and the method returns an empty table.
C3_ZeroCount ==
    (op = "get_all_associated_runs" /\ pc \in {"page_wait", "returned"} /\ total_runs = 0) =>
        /\ pc = "returned"
        /\ requests = <<CountRequest>>
        /\ result.kind = "table"
        /\ result.rows = <<>>

C3_Witness ==
    /\ pc = "returned"
    /\ op = "get_all_associated_runs"
    /\ total_runs = 0
    /\ Len(requests) = 1

\* C4: once a request failed the method has raised that error, returned no
\* value (no partial table), left no request outstanding, posted no request
\* twice, and the failing step and every later step post no request.
C4_FailFast ==
    /\ [](error # NoError =>
            /\ pc = "raised"
            /\ error \in Failures
            /\ result.kind = "none"
            /\ outstanding = {}
            /\ \A i, j \in 1..Len(requests) : requests[i] = requests[j] => i = j)
    /\ [][error' # NoError => requests' = requests]_vars

C4_Witness ==
    /\ pc = "raised"
    /\ op = "get_all_associated_runs"
    /\ Len(all_runs) >= 2
    /\ requests[Len(requests)].endpoint = ASSOCIATED_RUNS

\* C5: every string value of the document _request returned is free of CR
\* and LF and has no whitespace at either end.
C5_Sanitized ==
    (pc = "returned" /\ op \in {"get_run_details", "get_all_gut_microbes"}) =>
        StringsClean(response)

C5_Witness ==
    /\ pc = "returned"
    /\ op = "get_run_details"
    /\ response_data.t = "list"
    /\ response_data.items # <<>>
    /\ response_data.items[1].t = "dict"
    /\ ~StringsClean(response_data)

\* C6: sanitizing the sanitized document again gives the same document,
\* with the cache as the first pass left it and with an empty cache.
C6_Idempotent ==
    (pc = "returned" /\ op = "get_run_details") =>
        /\ CleanDict(self, response, cache).val = response
        /\ CleanDict(self, response, {}).val = response

C6_Witness ==
    /\ pc = "returned"
    /\ op = "get_run_details"
    /\ response_data.t = "dict"
    /\ response # response_data

\* C7: only the request posted last can be outstanding (so at most one is,
\* the count was answered before the first page request and every page
\* before the next), the count request is posted once and first, and the
\* page requests carry strictly increasing skip.
C7_Sequential ==
    op = "get_all_associated_runs" =>
        /\ outstanding \subseteq {Len(requests)}
        /\ Cardinality(outstanding) <= 1
        /\ requests[1] = CountRequest
        /\ \A i \in 2..Len(requests) : requests[i].endpoint = ASSOCIATED_RUNS
        /\ \A i, j \in 2..Len(requests) :
              i < j => requests[i].data[1] < requests[j].data[1]

C7_Witness ==
    /\ pc = "page_wait"
    /\ Len(requests) >= 4
    /\ outstanding = {Len(requests)}

\* The part of the overview for `key`, from the value of that key alone.
TablePartOf(doc, key) ==
    IF HasKey(doc, key)
    THEN CleanDict(self, Get(doc, key, Null), {}).val.items
    ELSE <<>>

\* C8: the result has exactly the parts all_species, all_genus and
\* metadata; each is the sanitized value of the response key of the same
\* name, or an empty table (empty mapping for metadata) when it is missing.
C8_PartsIndependent ==
    (pc = "returned" /\ op = "get_all_gut_microbes") =>
        /\ result.kind = "parts"
        /\ DOMAIN result.parts = {"all_species", "all_genus", "metadata"}
        /\ result.parts.all_species = TablePartOf(response_data, "all_species")
        /\ result.parts.all_genus = TablePartOf(response_data, "all_genus")
        /\ result.parts.metadata =
              (IF HasKey(response_data, "metadata")
               THEN CleanDict(self, Get(response_data, "metadata", Null), {}).val
               ELSE Dict(<<>>, <<>>))

C8_Witness ==
    /\ pc = "returned"
    /\ op = "get_all_gut_microbes"
    /\ ~HasKey(response_data, "all_genus")
    /\ HasKey(response_data, "all_species")
    /\ result.parts.all_genus = <<>>
    /\ Len(result.parts.all_species) = 2

\* C9: the sanitized document has the shape of the one received (same
\* keys, same lengths and order), its non-string scalars unchanged and its
\* strings normalized, and the document received is as it was.
C9_StructurePreserved ==
    (pc = "returned" /\ op \in {"get_run_details", "get_all_gut_microbes"}) =>
        SameShapeNormalized(response_data, response)

C9_Witness ==
    /\ pc = "returned"
    /\ response_data = Dict(<<"x">>, <<List(<<Str(<<"a", CR, LF>>), Num(3), Null>>)>>)
    /\ response = Dict(<<"x">>, <<List(<<Str(<<"a">>), Num(3), Null>>)>>)

\* C10: every call of the memoized _clean_str, hit or miss, returns the
\* normalized input; every cache entry holds the normalized form of its
\* argument, there is one entry per (instance, string), entries are only
\* added and never changed, and a hit is answered from an entry of the
\* calling instance.
C10_MemoTransparent ==
    /\ [](/\ last.self # "none" => last.ret = Normalized(last.arg)
          /\ \A e \in cache : e.val = Normalized(e.arg)
          /\ \A e1, e2 \in cache :
                (e1.owner = e2.owner /\ e1.arg = e2.arg) => e1 = e2
          /\ last.hit => last.used = last.self)
    /\ [][cache \subseteq cache']_vars

C10_Witness ==
    /\ last.hit
    /\ last.arg = <<"a", CR, LF>>
    /\ \E e \in cache : e.owner # last.self /\ e.arg = last.arg

=============================================================================
